---- MODULE Spec2Model ----
(***************************************************************************)
(* Model of src/cf1.cpp (Rphsrm): the exported CF1 phase-type operations    *)
(* C_cf1pdf, C_cf1cdf, C_cf1sample, C_cf1reform, C_cf1sojourn and           *)
(* em_cf1_emstep.                                                           *)
(*                                                                          *)
(* Numbers.  A double is modelled as an exact fraction.  A numeric vector   *)
(* is a cell [v |-> <<numerators>>, d |-> denominator] that stands for the  *)
(* reals v[i]/d.  Rcpp vectors are references: a cell lives in `heap` and a *)
(* NumericVector variable holds its address.  Sequences are 1-based, so     *)
(* the C++ element x[i] is v[i+1].                                          *)
(***************************************************************************)
EXTENDS Integers, Sequences, FiniteSets, TLC

VARIABLES pc, heap, arg, loc, ret

vars == <<pc, heap, arg, loc, ret>>

(* ------------------------------ bounds --------------------------------- *)
MaxN == 2
MaxK == 2
AlphaDen == 2
MaxSamples == 2
MaxOmega == 2

(* ------------------------- arithmetic helpers --------------------------- *)
RECURSIVE GCD(_, _)
GCD(a, b) == IF b = 0 THEN a ELSE GCD(b, a % b)

RECURSIVE Pow(_, _)
Pow(b, e) == IF e = 0 THEN 1 ELSE b * Pow(b, e - 1)

RECURSIVE Fact(_)
Fact(j) == IF j = 0 THEN 1 ELSE j * Fact(j - 1)

RECURSIVE SeqSum(_)
SeqSum(s) == IF s = <<>> THEN 0 ELSE Head(s) + SeqSum(Tail(s))

RECURSIVE SeqMax(_)
SeqMax(s) == IF Len(s) = 1 THEN s[1]
             ELSE LET m == SeqMax(Tail(s)) IN IF s[1] >= m THEN s[1] ELSE m

Abs(x) == IF x < 0 THEN -x ELSE x

Frac(n, d) == [n |-> n, d |-> d]

Reduce(q) == LET g == GCD(Abs(q.n), q.d) IN
             IF g = 0 THEN q ELSE Frac(q.n \div g, q.d \div g)

(* a sequence given by a function on 1..n, as an explicit tuple *)
Vec(f) == f \o <<>>

Zeros(n) == Vec([i \in 1..n |-> 0])

(* ------------------------------ inputs ---------------------------------- *)
Sizes == 1..MaxN

RECURSIVE NatVecs(_, _)
NatVecs(n, s) == IF n = 0 THEN (IF s = 0 THEN {<<>>} ELSE {})
                 ELSE UNION {{<<h>> \o t : t \in NatVecs(n - 1, s - h)} : h \in 0..s}

(* probability vectors: non-negative entries over AlphaDen that sum to 1 *)
Alphas(n) == {[v |-> a, d |-> AlphaDen] : a \in NatVecs(n, AlphaDen)}

RateValues == {1, 2}

Rates(n) == {[v |-> r, d |-> 1] : r \in [1..n -> RateValues]}

(* time differences, in quarters of a time unit *)
DxValues == {0, 1}

Times == {Frac(m, 4) : m \in DxValues}

TimeVecs == {[v |-> t, d |-> 4] : t \in UNION {[1..k -> DxValues] : k \in 1..MaxK}}

Bools == {TRUE, FALSE}

EpsValues == {Frac(1, 2), Frac(1, 4)}

UFactors == {Frac(2, 1)}

(* ------------------------------- heap ----------------------------------- *)
(* a copy that shares the cell of its source *)
clone_alias(h, a) == [heap |-> h, ref |-> a]

(* Rcpp::clone: a deep copy in a fresh cell *)
clone(h, a) == [heap |-> Append(h, h[a]), ref |-> Len(h) + 1]

(* NumericVector x(n): a fresh zero-filled cell *)
alloc(h, n) == [heap |-> Append(h, [v |-> Zeros(n), d |-> 1]), ref |-> Len(h) + 1]

store(h, a, c) == [h EXCEPT ![a] = c]

(* --------------------------- marlib helpers ----------------------------- *)
(* blas1 idamax: (1-based) index of the entry of largest magnitude *)
idamax(c) == CHOOSE i \in 1..Len(c.v) :
               /\ \A j \in 1..Len(c.v) : Abs(c.v[j]) <= Abs(c.v[i])
               /\ \A j \in 1..(i - 1) : Abs(c.v[j]) < Abs(c.v[i])

(* blas1 dasum: sum of magnitudes *)
dasum(c) == Frac(SeqSum([i \in 1..Len(c.v) |-> Abs(c.v[i])]), c.d)

(* ctmc unif for cf1_matrix: qv = ufactor * max rate, P overwritten by     *)
(* rate/qv (the off-diagonal of I + G/qv; the diagonal is 1 - P[i])        *)
unif(P, ufactor) ==
  LET m == SeqMax(P.v) IN
  [P  |-> [v |-> [i \in 1..Len(P.v) |-> P.v[i] * ufactor.d], d |-> m * ufactor.n],
   qv |-> Frac(m * ufactor.n, ufactor.d * P.d)]

FMul(a, b) == Reduce(Frac(a.n * b.n, a.d * b.d))

(* Poisson terms lambda^j/j! in fixed point (scale 10000), by the ratio     *)
(* recurrence; the common factor exp(-lambda) is left out                   *)
RECURSIVE PoisTerm(_, _)
PoisTerm(lam, j) == IF j = 0 THEN 10000
                    ELSE (PoisTerm(lam, j - 1) * lam.n) \div (lam.d * j)

RECURSIVE PoisSum(_, _)
PoisSum(lam, r) == IF r < 0 THEN 0 ELSE PoisTerm(lam, r) + PoisSum(lam, r - 1)

(* poisson rightbound: the smallest r whose right tail is below eps *)
rightbound(lam, eps) ==
  IF lam.n = 0 THEN 0
  ELSE LET total == PoisSum(lam, 24)
           ok(r) == (total - PoisSum(lam, r)) * eps.d < eps.n * total
       IN CHOOSE r \in 0..24 : ok(r) /\ \A q \in 0..(r - 1) : ~ok(q)

(* poisson pmf(lambda, lo, hi, buf): the masses for lo..hi and their sum.   *)
(* Mass j is kept as the integer lambda^j/j! * (b^hi * hi!), lambda = a/b:  *)
(* an exact multiple of the true mass by a factor common to all j and to    *)
(* the weight, which mexpv and mexp_conv divide out                         *)
pmf(lam, lo, hi) ==
  LET w == [j \in lo..hi |-> Pow(lam.n, j) * Pow(lam.d, hi - j) * (Fact(hi) \div Fact(j))]
      RECURSIVE tot(_)
      tot(j) == IF j < lo THEN 0 ELSE w[j] + tot(j - 1)
  IN [w |-> w, weight |-> tot(hi)]

(* writing the masses lo..hi into a buffer of Len(buf) elements; an index   *)
(* past the end is not part of the buffer and is reported in `over`         *)
fill(buf, lo, hi, w) ==
  [buf  |-> [i \in 1..Len(buf) |-> IF (i - 1) \in lo..hi THEN w[i - 1] ELSE buf[i]],
   over |-> {j \in lo..hi : j >= Len(buf)}]

(* cf1_matrix with trans(): one step x := x (I + G/qv) on numerators;       *)
(* the denominator is multiplied by P.d                                     *)
cf1_step(P, x) ==
  Vec([i \in 1..Len(x) |-> x[i] * (P.d - P.v[i])
                           + (IF i > 1 THEN x[i - 1] * P.v[i - 1] ELSE 0)])

RECURSIVE cf1_power(_, _, _)
cf1_power(P, x, j) == IF j = 0 THEN x ELSE cf1_step(P, cf1_power(P, x, j - 1))

(* mexpv: y = sum_{j=0..right} prob[j] * x P^j / weight *)
mexpv(P, prob, right, weight, x) ==
  LET term(j) == LET z == cf1_power(P, x.v, j) IN
                 Vec([i \in 1..Len(x.v) |-> prob[j + 1] * z[i] * Pow(P.d, right - j)])
      RECURSIVE acc(_)
      acc(j) == IF j < 0 THEN Zeros(Len(x.v))
                ELSE LET a == acc(j - 1) t == term(j) IN
                     Vec([i \in 1..Len(x.v) |-> a[i] + t[i]])
  IN [v |-> acc(right), d |-> x.d * Pow(P.d, right) * weight]

(* ----------------------- C_cf1pdf and C_cf1cdf -------------------------- *)
None == [kind |-> "none"]

Idle == [op |-> "none"]

(* lines 34-43 of C_cf1pdf and, word for word, lines 68-77 of C_cf1cdf.     *)
(* h holds the caller's dx, alpha and rate at the addresses a.dx, a.alpha   *)
(* and a.rate                                                               *)
prologue(h, a) ==
  LET k    == Len(h[a.dx].v)
      tmax == Frac(h[a.dx].v[idamax(h[a.dx])], h[a.dx].d)
      n    == Len(h[a.alpha].v)
      cP   == clone(h, a.rate)
      u    == unif(cP.heap[cP.ref], a.ufactor)
      h1   == store(cP.heap, cP.ref, u.P)
      cpr  == alloc(h1, rightbound(FMul(u.qv, tmax), a.eps) + 1)
      ctmp == clone(cpr.heap, a.alpha)
      cxi  == alloc(ctmp.heap, n)
  IN [heap |-> cxi.heap,
      loc  |-> [k |-> k, n |-> n, P |-> cP.ref, qv |-> u.qv, result |-> <<>>,
                prob |-> cpr.ref, tmp |-> ctmp.ref, xi |-> cxi.ref, i |-> 0,
                right |-> 0, weight |-> 0, over |-> {}]]

(* the propagation restarted from alpha at every time point *)
propagate_reset(h, a, l) ==
  LET lam    == FMul(l.qv, Frac(h[a.dx].v[l.i + 1], h[a.dx].d))
      right  == rightbound(lam, a.eps)
      p      == pmf(lam, 0, right)
      f      == fill(h[l.prob].v, 0, right, p.w)
      h1     == store(h, l.prob, [v |-> f.buf, d |-> 1])
      y      == mexpv(h1[l.P], h1[l.prob].v, right, p.weight, h1[a.alpha])
      z      == [v |-> cf1_power(h1[l.P], h1[a.alpha].v, right),
                 d |-> h1[a.alpha].d * Pow(h1[l.P].d, right)]
  IN [heap |-> store(store(h1, l.tmp, y), l.xi, z),
      loc  |-> [l EXCEPT !.right = right, !.weight = p.weight,
                         !.over = l.over \cup f.over]]

(* lines 45-47 / 79-81: right, the Poisson weights of dx[i], and mexpv from *)
(* tmp into tmp (xi is its scratch vector)                                  *)
propagate(h, a, l) ==
  LET lam    == FMul(l.qv, Frac(h[a.dx].v[l.i + 1], h[a.dx].d))
      right  == rightbound(lam, a.eps)
      p      == pmf(lam, 0, right)
      f      == fill(h[l.prob].v, 0, right, p.w)
      h1     == store(h, l.prob, [v |-> f.buf, d |-> 1])
      y      == mexpv(h1[l.P], h1[l.prob].v, right, p.weight, h1[l.tmp])
      z      == [v |-> cf1_power(h1[l.P], h1[l.tmp].v, right),
                 d |-> h1[l.tmp].d * Pow(h1[l.P].d, right)]
  IN [heap |-> store(store(h1, l.tmp, y), l.xi, z),
      loc  |-> [l EXCEPT !.right = right, !.weight = p.weight,
                         !.over = l.over \cup f.over]]

(* line 48: rate[n-1] * tmp[n-1] *)
pdf_value(h, a, l) ==
  Frac(h[a.rate].v[l.n] * h[l.tmp].v[l.n], h[a.rate].d * h[l.tmp].d)

(* line 82: dasum(tmp) *)
cdf_value(h, a, l) == dasum(h[l.tmp])

Val(f, q) == [f |-> f, n |-> q.n, d |-> q.d]

(* lines 50-54 *)
pdf_return(log, result) ==
  IF log = TRUE THEN [i \in 1..Len(result) |-> Val("log", result[i])]
  ELSE [i \in 1..Len(result) |-> Val("id", result[i])]

OneMinus(q) == Frac(q.d - q.n, q.d)

(* the last branch taken as its comment reads: lower == false && log == true *)
cdf_return_comment(lower, log, result) ==
  IF lower = FALSE /\ log = FALSE THEN
    [i \in 1..Len(result) |-> Val("id", result[i])]
  ELSE IF lower = TRUE /\ log = FALSE THEN
    [i \in 1..Len(result) |-> Val("id", OneMinus(result[i]))]
  ELSE
    [i \in 1..Len(result) |-> Val("log", result[i])]

(* the lower tail returned without the complement *)
cdf_return_upper(lower, log, result) ==
  IF log = FALSE THEN [i \in 1..Len(result) |-> Val("id", result[i])]
  ELSE IF lower = FALSE THEN [i \in 1..Len(result) |-> Val("log", result[i])]
  ELSE [i \in 1..Len(result) |-> Val("log", OneMinus(result[i]))]

(* lines 84-92 *)
cdf_return(lower, log, result) ==
  IF lower = FALSE /\ log = FALSE THEN
    [i \in 1..Len(result) |-> Val("id", result[i])]
  ELSE IF lower = TRUE /\ log = FALSE THEN
    [i \in 1..Len(result) |-> Val("id", OneMinus(result[i]))]
  ELSE IF lower = FALSE /\ log = TRUE THEN
    [i \in 1..Len(result) |-> Val("log", result[i])]
  ELSE
    [i \in 1..Len(result) |-> Val("log", OneMinus(result[i]))]

C_cf1pdf_call ==
  /\ pc = "idle"
  /\ \E n \in Sizes : \E dx \in TimeVecs, alpha \in Alphas(n), rate \in Rates(n),
         eps \in EpsValues, ufactor \in UFactors, log \in Bools :
       LET a == [op |-> "pdf", dx |-> 1, alpha |-> 2, rate |-> 3, eps |-> eps,
                 ufactor |-> ufactor, log |-> log, in |-> <<dx, alpha, rate>>]
       IN \E s \in {prologue(<<dx, alpha, rate>>, a)} :
            /\ arg' = a
            /\ heap' = s.heap
            /\ loc' = s.loc
  /\ pc' = "pdf_loop"
  /\ UNCHANGED ret

C_cf1pdf_step ==
  /\ pc = "pdf_loop"
  /\ loc.i < loc.k
  /\ \E s \in {propagate(heap, arg, loc)} :
       /\ heap' = s.heap
       /\ loc' = [s.loc EXCEPT !.result = Append(@, pdf_value(s.heap, arg, s.loc)),
                                !.i = @ + 1]
  /\ UNCHANGED <<pc, arg, ret>>

C_cf1pdf_return ==
  /\ pc = "pdf_loop"
  /\ loc.i >= loc.k
  /\ ret' = [kind |-> "value", val |-> pdf_return(arg.log, loc.result)]
  /\ pc' = "done"
  /\ UNCHANGED <<heap, arg, loc>>

C_cf1cdf_call ==
  /\ pc = "idle"
  /\ \E n \in Sizes : \E dx \in TimeVecs, alpha \in Alphas(n), rate \in Rates(n),
         eps \in EpsValues, ufactor \in UFactors, lower \in Bools, log \in Bools :
       LET a == [op |-> "cdf", dx |-> 1, alpha |-> 2, rate |-> 3, eps |-> eps,
                 ufactor |-> ufactor, lower |-> lower, log |-> log,
                 in |-> <<dx, alpha, rate>>]
       IN \E s \in {prologue(<<dx, alpha, rate>>, a)} :
            /\ arg' = a
            /\ heap' = s.heap
            /\ loc' = s.loc
  /\ pc' = "cdf_loop"
  /\ UNCHANGED ret

C_cf1cdf_step ==
  /\ pc = "cdf_loop"
  /\ loc.i < loc.k
  /\ \E s \in {propagate(heap, arg, loc)} :
       /\ heap' = s.heap
       /\ loc' = [s.loc EXCEPT !.result = Append(@, cdf_value(s.heap, arg, s.loc)),
                                !.i = @ + 1]
  /\ UNCHANGED <<pc, arg, ret>>

C_cf1cdf_return ==
  /\ pc = "cdf_loop"
  /\ loc.i >= loc.k
  /\ ret' = [kind |-> "value", val |-> cdf_return(arg.lower, arg.log, loc.result)]
  /\ pc' = "done"
  /\ UNCHANGED <<heap, arg, loc>>

(* ---------------------------- C_cf1sample ------------------------------ *)
NaN == [kind |-> "nan"]

Inf == [kind |-> "inf"]

Num(n, d) == [kind |-> "num", n |-> n, d |-> d]

(* IEEE division a/b of two non-negative doubles given as numerators over   *)
(* one common denominator: 0/0 is NaN, x/0 is Inf                           *)
fdiv(a, b) == IF b = 0 THEN (IF a = 0 THEN NaN ELSE Inf)
              ELSE IF b < 0 THEN Num(-a, -b) ELSE Num(a, b)

IntMin == -2147483647 - 1

(* int n - y in 32 bits *)
Sub32(n, y) == IF y < n - 2147483647 THEN ((n - 2147483647) - y - 2) - 2147483647
               ELSE n - y

(* R::rbinom(size, p): the values it can return.  It returns NaN when p is  *)
(* not finite, size < 0 or p is outside [0,1]; 0 when size or p is 0; size  *)
(* when p is 1; otherwise any count 0..size                                 *)
rbinom(size, p) ==
  IF p.kind # "num" \/ size < 0 THEN {NaN}
  ELSE IF p.n < 0 \/ p.n > p.d THEN {NaN}
  ELSE IF size = 0 \/ p.n = 0 THEN {Num(0, 1)}
  ELSE IF p.n = p.d THEN {Num(size, 1)}
  ELSE {Num(c, 1) : c \in 0..size}

(* y += d with int y and double d: converting NaN to int is undefined; the  *)
(* builds give INT_MIN (x86 cvttsd2si) or 0 (saturating conversion)         *)
AddToInt(y, d) == IF d.kind = "nan" THEN {IntMin, 0} ELSE {y + d.n}

C_cf1sample_call ==
  /\ pc = "idle"
  /\ \E k \in Sizes : \E n \in 0..MaxSamples, alpha \in Alphas(k), rate \in Rates(k) :
       /\ arg' = [op |-> "sample", n |-> n, alpha |-> 1, rate |-> 2,
                  in |-> <<alpha, rate>>]
       /\ heap' = <<alpha, rate>>
       /\ loc' = [res |-> [i \in 1..n |-> {}], y |-> 0, prob |-> alpha.d, l |-> 0,
                  p |-> NaN, drawn |-> NaN]
  /\ pc' = "sample_loop"
  /\ UNCHANGED ret

(* one pass of the loop body, lines 106-110; res[i] records the phases      *)
(* whose Exponential(rate[l]) holding time sample i has accrued             *)
C_cf1sample_step ==
  /\ pc = "sample_loop"
  /\ loc.l < Len(heap[arg.alpha].v)
  /\ LET a == heap[arg.alpha].v[loc.l + 1]
         p == fdiv(a, loc.prob)
     IN \E d \in rbinom(Sub32(arg.n, loc.y), p) : \E y2 \in AddToInt(loc.y, d) :
          loc' = [loc EXCEPT !.y = y2, !.prob = @ - a, !.l = @ + 1, !.p = p,
                             !.drawn = d,
                             !.res = [i \in 1..arg.n |->
                                        IF i - 1 < y2 THEN loc.res[i] \cup {loc.l}
                                        ELSE loc.res[i]]]
  /\ UNCHANGED <<pc, heap, arg, ret>>

C_cf1sample_return ==
  /\ pc = "sample_loop"
  /\ loc.l >= Len(heap[arg.alpha].v)
  /\ ret' = [kind |-> "value", val |-> loc.res]
  /\ pc' = "done"
  /\ UNCHANGED <<heap, arg, loc>>

(* ---------------------------- C_cf1reform ------------------------------ *)
(* cf1utils cf1_sort: the (alpha, rate) pairs in non-decreasing order of    *)
(* rate, equal rates keeping their order (insertion sort on pairs)          *)
RECURSIVE insert_pair(_, _)
insert_pair(s, e) ==
  IF s = <<>> THEN <<e>>
  ELSE IF e[2] < s[1][2] THEN <<e>> \o s
  ELSE <<s[1]>> \o insert_pair(Tail(s), e)

RECURSIVE sort_pairs(_, _)
sort_pairs(s, k) == IF k = 0 THEN <<>> ELSE insert_pair(sort_pairs(s, k - 1), s[k])

cf1_sort(a, r) ==
  LET n == Len(a.v)
      s == sort_pairs([i \in 1..n |-> <<a.v[i], r.v[i]>>], n)
  IN [alpha |-> [v |-> [i \in 1..n |-> s[i][1]], d |-> a.d],
      rate  |-> [v |-> [i \in 1..n |-> s[i][2]], d |-> r.d]]

C_cf1reform ==
  /\ pc = "idle"
  /\ \E n \in Sizes : \E alpha \in Alphas(n), rate \in Rates(n) :
       LET h  == <<alpha, rate>>
           ca == clone(h, 1)
           cr == clone(ca.heap, 2)
           s  == cf1_sort(cr.heap[ca.ref], cr.heap[cr.ref])
           h1 == store(store(cr.heap, ca.ref, s.alpha), cr.ref, s.rate)
       IN /\ arg' = [op |-> "reform", alpha |-> 1, rate |-> 2, in |-> h]
          /\ heap' = h1
          /\ loc' = [a |-> ca.ref, r |-> cr.ref]
          /\ ret' = [kind |-> "value",
                     val |-> [alpha |-> h1[ca.ref], rate |-> h1[cr.ref]]]
  /\ pc' = "done"

(* ---------------------------- C_cf1sojourn ----------------------------- *)
(* cf1_matrix without trans(): one step x := (I + G/qv) x on numerators *)
cf1_back(P, x) ==
  Vec([i \in 1..Len(x) |-> x[i] * (P.d - P.v[i])
                           + (IF i < Len(x) THEN x[i + 1] * P.v[i] ELSE 0)])

(* mexp_conv: the forward vectors xi_l = x P^l, the backward vectors        *)
(* vc[l] = P vc[l+1] + poi[l] y with vc[right+1] = poi[right+1] y, then     *)
(* z = sum_l poi[l] xi_l / weight and H = sum_l xi_l (x) vc[l+1] /          *)
(* (qv weight); for cf1 H holds the n diagonal terms, then the n-1          *)
(* off-diagonal terms.  poi is a function on 0..right+1.                    *)
mexp_conv(P, qv, poi, right, weight, x, y) ==
  LET n == Len(x.v)
      RECURSIVE vc(_)
      vc(l) == IF l = right + 1 THEN Vec([i \in 1..n |-> poi[l] * y.v[i]])
               ELSE LET b == cf1_back(P, vc(l + 1)) IN
                    Vec([i \in 1..n |-> b[i] + poi[l] * y.v[i] * Pow(P.d, right + 1 - l)])
      xi(l) == cf1_power(P, x.v, l)
      RECURSIVE hsum(_, _, _)
      hsum(l, i, j) == IF l > right THEN 0
                       ELSE xi(l)[i] * vc(l + 1)[j] + hsum(l + 1, i, j)
      H == Vec([m \in 1..(n + n) |->
                  IF m <= n THEN hsum(0, m, m)
                  ELSE IF m < n + n THEN hsum(0, m - n, m - n + 1)
                  ELSE 0])
  IN [z |-> mexpv(P, Vec([l \in 1..(right + 1) |-> poi[l - 1]]), right, weight, x),
      H |-> [v |-> Vec([m \in 1..(n + n) |-> H[m] * qv.d]),
             d |-> x.d * y.d * Pow(P.d, right) * qv.n * weight]]

(* the element one past the end of prob, read back by mexp_conv after pmf   *)
(* stored a mass there: outside the buffer, so the read gives that mass or  *)
(* whatever has replaced it (0 here)                                        *)
Overrun == {"kept", "clobbered"}

(* lines 135-149; h holds the caller's alpha, rate, f and b at addresses    *)
(* 1..4, g is the fate of the element written past the end of prob          *)
sojourn_body(h, t, eps, ufactor, g) ==
  LET n     == Len(h[1].v)
      cP    == clone(h, 2)
      u     == unif(cP.heap[cP.ref], ufactor)
      h1    == store(cP.heap, cP.ref, u.P)
      lam   == FMul(u.qv, t)
      right == rightbound(lam, eps)
      cpr   == alloc(h1, right + 1)
      p     == pmf(lam, 0, right + 1)
      fl    == fill(cpr.heap[cpr.ref].v, 0, right + 1, p.w)
      h2    == store(cpr.heap, cpr.ref, [v |-> fl.buf, d |-> 1])
      cH    == alloc(h2, n + n)
      cf2   == clone(cH.heap, 3)
      cxi   == alloc(cf2.heap, n)
      h3    == cxi.heap
      poi   == [l \in 0..(right + 1) |->
                  IF l < Len(h3[cpr.ref].v) THEN h3[cpr.ref].v[l + 1]
                  ELSE IF g = "kept" THEN p.w[l] ELSE 0]
      c     == mexp_conv(h3[cP.ref], u.qv, poi, right, p.weight, h3[cf2.ref], h3[4])
      h4    == store(store(h3, cf2.ref, c.z), cH.ref, c.H)
  IN [heap |-> h4,
      loc  |-> [n |-> n, P |-> cP.ref, qv |-> u.qv, right |-> right,
                prob |-> cpr.ref, weight |-> p.weight, H |-> cH.ref,
                f2 |-> cf2.ref, xi |-> cxi.ref, lo |-> 0, hi |-> right + 1,
                over |-> fl.over],
      ret  |-> [kind |-> "value", val |-> h4[cH.ref]]]

(* backward weights: all ones, or the exit rates *)
BackVecs(rate) == {[v |-> Vec([i \in 1..Len(rate.v) |-> 1]), d |-> 1], rate}

C_cf1sojourn ==
  /\ pc = "idle"
  /\ \E n \in Sizes : \E alpha \in Alphas(n), rate \in Rates(n), f \in Alphas(n),
         t \in Times, eps \in EpsValues, ufactor \in UFactors, g \in Overrun :
       \E b \in BackVecs(rate) :
       \E s \in {sojourn_body(<<alpha, rate, f, b>>, t, eps, ufactor, g)} :
          /\ arg' = [op |-> "sojourn", alpha |-> 1, rate |-> 2, f |-> 3, b |-> 4,
                     t |-> t, eps |-> eps, ufactor |-> ufactor,
                     in |-> <<alpha, rate, f, b>>]
          /\ heap' = s.heap
          /\ loc' = s.loc
          /\ ret' = s.ret
  /\ pc' = "done"

(* ---------------------------- em_cf1_emstep ---------------------------- *)
ParamSets == {[omega |-> w, alpha |-> [v |-> <<>>, d |-> AlphaDen],
               rate |-> [v |-> <<>>, d |-> 1]] : w \in 1..MaxOmega}
             \cup UNION {{[omega |-> w, alpha |-> a, rate |-> r] :
                            w \in 1..MaxOmega, a \in Alphas(n), r \in Rates(n)}
                         : n \in Sizes}

(* records: elapsed times in quarters (0 is a non-positive elapsed time),   *)
(* one fault and type 0 per record                                          *)
DataSets == {[time |-> [v |-> t, d |-> 4], fault |-> [i \in 1..Len(t) |-> 1],
              type |-> [i \in 1..Len(t) |-> 0]] :
               t \in UNION {[1..k -> DxValues] : k \in 1..MaxK}}

(* cf1utils cf1emstep: a record with non-positive elapsed time or an empty  *)
(* parameter vector is reported as an error; otherwise it yields updated    *)
(* parameters and the log-likelihood under the input parameters.  The       *)
(* update itself is not computed: any valid parameter triple can come out   *)
cf1emstep(params, data) ==
  LET n == Len(params.alpha.v) IN
  IF n = 0 \/ \E i \in 1..Len(data.time.v) : data.time.v[i] <= 0
  THEN {[kind |-> "error"]}
  ELSE {[kind |-> "ok", new_omega |-> w, new_alpha |-> a, new_rate |-> r,
         llf |-> [of |-> params]] :
          w \in 1..MaxOmega, a \in Alphas(n), r \in Rates(n)}

(* operator- on two vectors *)
VecSub(a, b) == [v |-> [i \in 1..Len(a.v) |-> a.v[i] - b.v[i]], d |-> a.d]

(* an error of cf1emstep swallowed: the list is built from zeroed outputs *)
em_cf1_emstep_swallow(params, e) ==
  [kind |-> "value",
   val |-> [param |-> [omega |-> 0, alpha |-> params.alpha, rate |-> params.rate],
            pdiff |-> [omega |-> 0 - params.omega,
                       alpha |-> VecSub(params.alpha, params.alpha),
                       rate  |-> VecSub(params.rate, params.rate)],
            llf   |-> 0,
            total |-> 0]]

(* lines 182-196: the list built from the result of cf1emstep; an error     *)
(* raised by cf1emstep is not caught and reaches the caller                 *)
em_cf1_emstep_result(params, e) ==
  IF e.kind = "error" THEN [kind |-> "error"]
  ELSE LET s == cf1_sort(e.new_alpha, e.new_rate) IN
       [kind |-> "value",
        val |-> [param |-> [omega |-> e.new_omega, alpha |-> s.alpha, rate |-> s.rate],
                 pdiff |-> [omega |-> e.new_omega - params.omega,
                            alpha |-> VecSub(s.alpha, params.alpha),
                            rate  |-> VecSub(s.rate, params.rate)],
                 llf   |-> e.llf,
                 total |-> e.new_omega]]

em_cf1_emstep ==
  /\ pc = "idle"
  /\ \E params \in ParamSets, data \in DataSets : \E e \in cf1emstep(params, data) :
       LET r == em_cf1_emstep_result(params, e) IN
       /\ arg' = [op |-> "emstep", params |-> params, data |-> data]
       /\ heap' = <<params.alpha, params.rate>>
       /\ loc' = [e |-> e]
       /\ ret' = r
       /\ pc' = IF r.kind = "error" THEN "error" ELSE "done"

(* ----------------------------- specification ---------------------------- *)
Init ==
  /\ pc = "idle"
  /\ heap = <<>>
  /\ arg = Idle
  /\ loc = Idle
  /\ ret = None

Next ==
  \/ C_cf1pdf_call
  \/ C_cf1pdf_step
  \/ C_cf1pdf_return
  \/ C_cf1cdf_call
  \/ C_cf1cdf_step
  \/ C_cf1cdf_return
  \/ C_cf1sample_call
  \/ C_cf1sample_step
  \/ C_cf1sample_return
  \/ C_cf1reform
  \/ C_cf1sojourn
  \/ em_cf1_emstep

Spec == Init /\ [][Next]_vars

(* ----------------------------- properties ------------------------------- *)
(* a <= b for fractions; one denominator is a multiple of the other along   *)
(* a propagation, which keeps the products small                            *)
LeqFrac(a, b) ==
  IF b.d % a.d = 0 THEN a.n * (b.d \div a.d) <= b.n
  ELSE IF a.d % b.d = 0 THEN a.n <= b.n * (a.d \div b.d)
  ELSE a.n * b.d <= b.n * a.d

CdfDone == pc = "done" /\ arg.op = "cdf"

C5_InputsUnmodified ==
  (arg.op \in {"pdf", "cdf", "reform", "sojourn"}) =>
     /\ heap[arg.alpha] = arg.in[arg.alpha]
     /\ heap[arg.rate] = arg.in[arg.rate]
     /\ (arg.op = "sojourn") =>
          /\ heap[arg.f] = arg.in[arg.f]
          /\ {loc.P, loc.f2} \cap {arg.alpha, arg.rate, arg.f, arg.b} = {}
     /\ (arg.op \in {"pdf", "cdf"}) =>
          {loc.P, loc.tmp} \cap {arg.dx, arg.alpha, arg.rate} = {}
     /\ (arg.op = "reform") => {loc.a, loc.r} \cap {arg.alpha, arg.rate} = {}

C5_Witness ==
  /\ pc = "done"
  /\ arg.op = "sojourn"
  /\ heap[loc.P] # heap[arg.rate]
  /\ heap[loc.f2] # heap[arg.f]

(* the value C_cf1cdf returns for the single elapsed time m/4 with the      *)
(* flags lower = TRUE, log = FALSE                                          *)
CdfAt(alpha, rate, eps, ufactor, m) ==
  LET a  == [dx |-> 1, alpha |-> 2, rate |-> 3, eps |-> eps, ufactor |-> ufactor]
      s0 == prologue(<<[v |-> <<m>>, d |-> 4], alpha, rate>>, a)
      s1 == propagate(s0.heap, a, s0.loc)
  IN cdf_return(TRUE, FALSE, <<cdf_value(s1.heap, a, s1.loc)>>)[1]

(* C6: the lower-tail CDF on the natural scale is non-decreasing in elapsed *)
(* time: within a call the survival mass sum(tmp) never increases from one  *)
(* iteration to the next and the returned 1-result values never decrease    *)
(* along the index, and over two calls t1 <= t2 gives cdf(t1) <= cdf(t2).   *)
C6_CdfMonotone ==
  /\ (arg.op = "cdf") =>
        \A i \in 1..(Len(loc.result) - 1) : LeqFrac(loc.result[i + 1], loc.result[i])
  /\ (CdfDone /\ arg.lower /\ ~arg.log) =>
        /\ \A i \in 1..(Len(ret.val) - 1) :
             /\ ret.val[i].f = "id"
             /\ LeqFrac(ret.val[i], ret.val[i + 1])
        /\ \A m1 \in DxValues, m2 \in DxValues :
             (m1 <= m2) =>
                LeqFrac(CdfAt(heap[arg.alpha], heap[arg.rate], arg.eps, arg.ufactor, m1),
                        CdfAt(heap[arg.alpha], heap[arg.rate], arg.eps, arg.ufactor, m2))

C6_Witness ==
  /\ CdfDone /\ arg.lower /\ ~arg.log
  /\ Len(ret.val) >= 2
  /\ ret.val[1].n > 0
  /\ ~LeqFrac(ret.val[2], ret.val[1])

(* the state vector after the first j time differences, each propagated     *)
(* from the vector before it, starting from alpha                           *)
RECURSIVE Chain(_, _, _, _, _, _)
Chain(dx, alpha, rate, eps, ufactor, j) ==
  IF j = 0 THEN alpha
  ELSE LET u     == unif(rate, ufactor)
           lam   == FMul(u.qv, Frac(dx.v[j], dx.d))
           right == rightbound(lam, eps)
           p     == pmf(lam, 0, right)
       IN mexpv(u.P, Vec([i \in 1..(right + 1) |-> p.w[i - 1]]), right, p.weight,
                Chain(dx, alpha, rate, eps, ufactor, j - 1))

(* C7: in C_cf1pdf and C_cf1cdf qv is computed once, tmp starts as alpha    *)
(* and iteration i propagates the vector left by iteration i-1 over dx[i],  *)
(* so result[i] belongs to the elapsed time dx[0]+...+dx[i]; tmp is never   *)
(* reset to alpha between time points.                                      *)
C7_DxAreDifferences ==
  (pc \in {"pdf_loop", "cdf_loop"}) =>
     LET dx    == arg.in[arg.dx]
         alpha == arg.in[arg.alpha]
         rate  == arg.in[arg.rate]
     IN /\ loc.qv = unif(rate, arg.ufactor).qv
        /\ heap[loc.P] = unif(rate, arg.ufactor).P
        /\ heap[loc.tmp] = Chain(dx, alpha, rate, arg.eps, arg.ufactor, loc.i)
        /\ Len(loc.result) = loc.i
        /\ \A j \in 1..loc.i :
             LET c == Chain(dx, alpha, rate, arg.eps, arg.ufactor, j) IN
             loc.result[j] = IF arg.op = "pdf"
                             THEN Frac(rate.v[loc.n] * c.v[loc.n], rate.d * c.d)
                             ELSE Frac(SeqSum(c.v), c.d)

C7_Witness ==
  /\ pc = "cdf_loop"
  /\ loc.i = 2
  /\ \A j \in 1..2 : arg.in[arg.dx].v[j] > 0
  /\ ~LeqFrac(loc.result[1], loc.result[2])
  /\ heap[loc.tmp].v # arg.in[arg.alpha].v

EmBadInput ==
  \/ Len(arg.params.alpha.v) = 0
  \/ \E i \in 1..Len(arg.data.time.v) : arg.data.time.v[i] <= 0

C3_PdiffAbsolute ==
  (arg.op = "emstep" /\ pc = "done") =>
     LET new == ret.val.param
         old == arg.params
         pd  == ret.val.pdiff
     IN /\ pd.omega = Abs(new.omega - old.omega)
        /\ \A i \in 1..Len(old.alpha.v) :
             /\ pd.alpha.v[i] = Abs(new.alpha.v[i] - old.alpha.v[i])
             /\ pd.rate.v[i] = Abs(new.rate.v[i] - old.rate.v[i])

(* C8: in C_cf1sojourn every index the pmf call fills (lo..hi as passed) is *)
(* a valid index of prob: the highest index written is below its length.    *)
C8_PmfWithinProb ==
  (arg.op = "sojourn" /\ pc = "done") =>
     /\ loc.hi < Len(heap[loc.prob].v)
     /\ loc.over = {}

SampleBody == pc = "sample_loop" /\ loc.l < Len(heap[arg.alpha].v)

RECURSIVE PrefixSum(_, _)
PrefixSum(s, k) == IF k = 0 THEN 0 ELSE s[k] + PrefixSum(s, k - 1)

(* C9: in C_cf1sample, for every probability vector alpha (zero entries     *)
(* allowed anywhere), at every phase l the divisor prob is 1 minus the sum  *)
(* of alpha[0..l-1] and is strictly positive, so alpha[l]/prob is a number  *)
(* in [0,1].                                                                *)
C9_DivisorPositive ==
  SampleBody =>
     LET alpha == heap[arg.alpha]
         p     == fdiv(alpha.v[loc.l + 1], loc.prob)
     IN /\ loc.prob = alpha.d - PrefixSum(alpha.v, loc.l)
        /\ loc.prob > 0
        /\ p.kind = "num" /\ 0 <= p.n /\ p.n <= p.d

(* C10: in C_cf1sample with alpha summing to 1 the loop ends with y = n and *)
(* every returned variate has accrued the holding time of the last phase.   *)
C10_AllSamplesEnter ==
  (arg.op = "sample" /\ pc = "done") =>
     /\ loc.y = arg.n
     /\ \A i \in 1..arg.n : (Len(heap[arg.alpha].v) - 1) \in loc.res[i]

(* C2: in C_cf1sample, phase by phase, the newly entering count is a        *)
(* Binomial(n - y, alpha[l]/prob) draw, prob then drops by alpha[l], and    *)
(* exactly the samples of index < y accrue a holding time; so y never       *)
(* decreases, 0 <= y <= n after every phase, and a sample that accrued at   *)
(* phase l accrues at every later phase.                                    *)
C2_SamplePhases ==
  [][SampleBody =>
       LET a == heap[arg.alpha].v[loc.l + 1] IN
       /\ loc'.l = loc.l + 1
       /\ loc'.prob = loc.prob - a
       /\ loc'.drawn.kind = "num"
       /\ loc'.drawn.n \in 0..(arg.n - loc.y)
       /\ loc'.y = loc.y + loc'.drawn.n
       /\ loc'.y >= loc.y
       /\ loc'.y \in 0..arg.n
       /\ \A i \in 1..arg.n :
            /\ (loc.l \in loc'.res[i]) <=> (i - 1 < loc'.y)
            /\ \A l1 \in loc.res[i] : \A l2 \in l1..loc.l : l2 \in loc'.res[i]]_vars

====
